---- MODULE Spec2Model ----
(***************************************************************************)
(* A model of babel-plugin-metalog (src/src/index.js): the rewrite of      *)
(* labeled statements (error:, warn:, info:, debug:, trace:) into calls of *)
(* a global logging function, and the compile-time strip policy.           *)
(*                                                                         *)
(* Strings the code inspects character by character (label names, file     *)
(* names, the TRACE_* environment variables) are sequences of             *)
(* one-character strings; strings that are only compared or concatenated   *)
(* (function names, NODE_ENV) are TLA+ strings.                            *)
(***************************************************************************)
EXTENDS Integers, Sequences, FiniteSets, TLC

VARIABLES
  tree,               \* the program being transformed (Babel's mutable AST)
  source,             \* the program as parsed, before the pass (never changes)
  stack,              \* the contexts of program.traverse: the queues still to visit
  opts,               \* the plugin options of this file, normalized in place
  nodeEnv,            \* process.env.NODE_ENV
  PRESERVE_CONTEXTS,  \* normalizeEnv(process.env.TRACE_CONTEXT)
  PRESERVE_FILES,     \* normalizeEnv(process.env.TRACE_FILE)
  PRESERVE_LEVELS,    \* normalizeEnv(process.env.TRACE_LEVEL)
  filename,           \* path.hub.file.opts.filename
  status,             \* "running", "done", or the error that aborted the pass
  log,                \* one record per visit of a qualifying labeled statement
  call                \* the last call of shouldStrip: its arguments and outcome

vars == <<tree, source, stack, opts, nodeEnv, PRESERVE_CONTEXTS, PRESERVE_FILES,
          PRESERVE_LEVELS, filename, status, log, call>>

-----------------------------------------------------------------------------
(* JavaScript strings *)

UpperChars == <<"A","B","C","D","E","F","G","H","I","J","K","L","M",
                "N","O","P","Q","R","S","T","U","V","W","X","Y","Z">>
LowerChars == <<"a","b","c","d","e","f","g","h","i","j","k","l","m",
                "n","o","p","q","r","s","t","u","v","w","x","y","z">>

toLowerCaseChar(c) ==
  IF \E i \in 1..Len(UpperChars) : UpperChars[i] = c
    THEN LowerChars[CHOOSE i \in 1..Len(UpperChars) : UpperChars[i] = c]
    ELSE c

toLowerCase(s) == [i \in 1..Len(s) |-> toLowerCaseChar(s[i])]

IsSpace(c) == c \in {" ", "\t"}

RECURSIVE trimStart(_)
trimStart(s) ==
  IF s # <<>> /\ IsSpace(Head(s)) THEN trimStart(Tail(s)) ELSE s

RECURSIVE trimEnd(_)
trimEnd(s) ==
  IF s # <<>> /\ IsSpace(s[Len(s)]) THEN trimEnd(SubSeq(s, 1, Len(s) - 1)) ELSE s

trim(s) == trimEnd(trimStart(s))

\* String.prototype.indexOf: the first offset (from 0) of needle in hay, or -1
RECURSIVE indexOfFrom(_, _, _)
indexOfFrom(hay, needle, i) ==
  IF i + Len(needle) > Len(hay) THEN -1
  ELSE IF SubSeq(hay, i + 1, i + Len(needle)) = needle THEN i
  ELSE indexOfFrom(hay, needle, i + 1)

indexOf(hay, needle) == indexOfFrom(hay, needle, 0)

\* the pieces of s between its commas
RECURSIVE splitComma(_, _)
splitComma(s, cur) ==
  IF s = <<>> THEN <<cur>>
  ELSE IF Head(s) = "," THEN <<cur>> \o splitComma(Tail(s), <<>>)
  ELSE splitComma(Tail(s), Append(cur, Head(s)))

\* input.split(/\s*,\s*/): each separator takes the blanks around its comma
split(s) ==
  LET parts == splitComma(s, <<>>)
  IN [i \in 1..Len(parts) |->
        LET p == parts[i]
            q == IF i > 1 THEN trimStart(p) ELSE p
        IN IF i < Len(parts) THEN trimEnd(q) ELSE q]

RECURSIVE filterNonEmpty(_)
filterNonEmpty(ss) ==
  IF ss = <<>> THEN <<>>
  ELSE IF Head(ss) # <<>> THEN <<Head(ss)>> \o filterNonEmpty(Tail(ss))
  ELSE filterNonEmpty(Tail(ss))

\* an unset environment variable
Unset == [def |-> FALSE, s |-> <<>>]
EnvStr(s) == [def |-> TRUE, s |-> s]

normalizeEnv(input) ==
  IF ~input.def \/ input.s = <<>> THEN <<>>
  ELSE LET parts == split(input.s)
       IN filterNonEmpty([i \in 1..Len(parts) |-> trim(toLowerCase(parts[i]))])

-----------------------------------------------------------------------------
(* JavaScript values of the strip option *)

JSUndefined == [t |-> "undefined", b |-> FALSE, s |-> "", n |-> 0, m |-> <<>>]
JSBool(b)   == [JSUndefined EXCEPT !.t = "boolean", !.b = b]
JSString(s) == [JSUndefined EXCEPT !.t = "string", !.s = s]
JSNumber(n) == [JSUndefined EXCEPT !.t = "number", !.n = n]
JSObject(m) == [JSUndefined EXCEPT !.t = "object", !.m = m]

Truthy(v) ==
  CASE v.t = "undefined" -> FALSE
    [] v.t = "boolean"   -> v.b
    [] v.t = "string"    -> v.s # ""
    [] v.t = "number"    -> v.n # 0
    [] OTHER             -> TRUE

\* v[key]. A string or a number has no property named after an environment
\* whose value is a boolean, so reading one gives no `true`.
GetProp(v, key) ==
  IF v.t = "object" /\ key \in DOMAIN v.m THEN v.m[key] ELSE JSUndefined

\* the property key process.env.NODE_ENV makes: String(undefined) when unset
EnvKey(env) == IF env.def THEN env.s ELSE "undefined"

-----------------------------------------------------------------------------
(* The strip decision *)

Returned(v) == [threw |-> FALSE, value |-> v]
TypeError   == [threw |-> TRUE, value |-> FALSE]

hasStripOverride(name, metadata) ==
  IF Len(PRESERVE_CONTEXTS) > 0 /\ "context" \notin DOMAIN metadata
    THEN TypeError     \* metadata.context is undefined: .toLowerCase() throws
  ELSE IF Len(PRESERVE_CONTEXTS) > 0
          /\ \E i \in 1..Len(PRESERVE_CONTEXTS) :
               indexOf(toLowerCase(metadata.context), PRESERVE_CONTEXTS[i]) # -1
    THEN Returned(TRUE)
  ELSE IF Len(PRESERVE_FILES) > 0
          /\ \E i \in 1..Len(PRESERVE_FILES) :
               indexOf(toLowerCase(metadata.filename), PRESERVE_FILES[i]) # -1
    THEN Returned(TRUE)
  ELSE IF Len(PRESERVE_LEVELS) > 0
          /\ \E i \in 1..Len(PRESERVE_LEVELS) :
               PRESERVE_LEVELS[i] = toLowerCase(name)
    THEN Returned(TRUE)
  ELSE Returned(FALSE)

\* a variant that takes any truthy entry of a mapping for true
stripMatchesTruthy(o) ==
  \/ o.strip = JSBool(TRUE)
  \/ (o.strip.t = "string" /\ nodeEnv.def /\ o.strip.s = nodeEnv.s)
  \/ Truthy(GetProp(o.strip, EnvKey(nodeEnv)))

stripMatches(o) ==
  \/ o.strip = JSBool(TRUE)
  \/ (o.strip.t = "string" /\ nodeEnv.def /\ o.strip.s = nodeEnv.s)
  \/ GetProp(o.strip, EnvKey(nodeEnv)) = JSBool(TRUE)

shouldStrip(name, metadata, o) ==
  IF ~Truthy(o.strip) THEN Returned(FALSE)
  ELSE IF stripMatches(o)
    THEN LET r == hasStripOverride(name, metadata)
         IN IF r.threw THEN r ELSE Returned(~r.value)
  ELSE Returned(FALSE)

-----------------------------------------------------------------------------
(* The syntax tree.  Every node is a record of the same shape:              *)
(*   type     Babel's node type                                             *)
(*   name     an identifier's, function's, class's or method's name         *)
(*   text     a label's name, a string literal's value (characters)         *)
(*   num      a numeric literal's value                                     *)
(*   bool     a boolean literal's value; for a ClassMethod: key is computed *)
(*   line     node.loc.start.line (0: a synthesized node has no loc)        *)
(*   handled  node[$handled]                                                *)
(*   kids     the children the traversal visits, in visiting order          *)
(* A position is the sequence of child indices leading from the root.       *)

Node(type) == [type |-> type, name |-> "", text |-> <<>>, num |-> 0,
               bool |-> FALSE, line |-> 0, handled |-> FALSE, kids |-> <<>>]

identifier(name)        == [Node("Identifier") EXCEPT !.name = name]
stringLiteral(text)     == [Node("StringLiteral") EXCEPT !.text = text]
nameLiteral(name)       == [Node("StringLiteral") EXCEPT !.name = name]
booleanLiteral(b)       == [Node("BooleanLiteral") EXCEPT !.bool = b]
numericLiteral(n)       == [Node("NumericLiteral") EXCEPT !.num = n]
arrayExpression(elems)  == [Node("ArrayExpression") EXCEPT !.kids = elems]
objectProperty(key, v)  == [Node("ObjectProperty") EXCEPT !.name = key, !.kids = <<v>>]
objectExpression(props) == [Node("ObjectExpression") EXCEPT !.kids = props]
callExpression(callee, args) == [Node("CallExpression") EXCEPT !.name = callee, !.kids = args]
expressionStatement(e)  == [Node("ExpressionStatement") EXCEPT !.kids = <<e>>]

sequenceExpression(es)  == [Node("SequenceExpression") EXCEPT !.kids = es]
assignmentExpression(l, r) == [Node("AssignmentExpression") EXCEPT !.kids = <<l, r>>]
updateExpression(e)     == [Node("UpdateExpression") EXCEPT !.kids = <<e>>]
blockStatement(body)    == [Node("BlockStatement") EXCEPT !.kids = body]
labeledStatement(label, body) == [Node("LabeledStatement") EXCEPT !.text = label, !.kids = <<body>>]
ifStatement(test, cons) == [Node("IfStatement") EXCEPT !.kids = <<test, cons>>]
variableDeclaration(name, init) == [Node("VariableDeclaration") EXCEPT !.name = name, !.kids = <<init>>]
returnStatement(arg)    == [Node("ReturnStatement") EXCEPT !.kids = <<arg>>]
functionDeclaration(name, body) ==
  [Node("FunctionDeclaration") EXCEPT !.name = name, !.kids = <<blockStatement(body)>>]
functionExpression(name, body) ==
  [Node("FunctionExpression") EXCEPT !.name = name, !.kids = <<blockStatement(body)>>]
classMethod(name, computed, body) ==
  [Node("ClassMethod") EXCEPT !.name = name, !.bool = computed, !.kids = <<blockStatement(body)>>]
classBody(methods)      == [Node("ClassBody") EXCEPT !.kids = methods]
classDeclaration(name, methods) ==
  [Node("ClassDeclaration") EXCEPT !.name = name, !.kids = <<classBody(methods)>>]
classExpression(name, methods) ==
  [Node("ClassExpression") EXCEPT !.name = name, !.kids = <<classBody(methods)>>]
program(body)           == [Node("Program") EXCEPT !.kids = body]

\* the node types whose children are one list (an array container)
ListTypes == {"Program", "BlockStatement", "ClassBody", "SequenceExpression",
              "ArrayExpression", "ObjectExpression", "CallExpression"}

FunctionTypes == {"FunctionDeclaration", "FunctionExpression",
                  "ArrowFunctionExpression", "ObjectMethod", "ClassMethod"}

isFunction(n)         == n.type \in FunctionTypes
isClassMethod(n)      == n.type = "ClassMethod"
isClassDeclaration(n) == n.type = "ClassDeclaration"
isProgram(n)          == n.type = "Program"
isClassBody(n)        == n.type = "ClassBody"
isBlockStatement(n)   == n.type = "BlockStatement"
isLabeledStatement(n) == n.type = "LabeledStatement"
isSequenceExpression(n) == n.type = "SequenceExpression"

RECURSIVE NodeAt(_, _)
NodeAt(t, pos) ==
  IF pos = <<>> THEN t ELSE NodeAt(t.kids[Head(pos)], Tail(pos))

\* the tree with the children of the node at pos replaced
RECURSIVE WithKids(_, _, _)
WithKids(t, pos, kids) ==
  IF pos = <<>> THEN [t EXCEPT !.kids = kids]
  ELSE [t EXCEPT !.kids[Head(pos)] = WithKids(t.kids[Head(pos)], Tail(pos), kids)]

Parent(pos) == SubSeq(pos, 1, Len(pos) - 1)
Key(pos)    == pos[Len(pos)]

\* a variant that moves the elements of nodes to the end of the list
SpliceToEnd(list, k, nodes) ==
  SubSeq(list, 1, k - 1) \o SubSeq(list, k + 1, Len(list)) \o nodes

\* a list with the element at k replaced by the elements of nodes
Splice(list, k, nodes) ==
  SubSeq(list, 1, k - 1) \o nodes \o SubSeq(list, k + 1, Len(list))

\* path.getAncestry(): the positions from pos itself out to the root
getAncestry(pos) ==
  [i \in 1..(Len(pos) + 1) |-> SubSeq(pos, 1, Len(pos) + 1 - i)]

-----------------------------------------------------------------------------
(* Numbers in strings *)

Digits == <<"0", "1", "2", "3", "4", "5", "6", "7", "8", "9">>

RECURSIVE NumberToString(_)
NumberToString(n) ==
  IF n < 10 THEN Digits[n + 1]
  ELSE NumberToString(n \div 10) \o Digits[(n % 10) + 1]

-----------------------------------------------------------------------------
(* The plugin options and the alias table *)

C_error == <<"e", "r", "r", "o", "r">>
C_warn  == <<"w", "a", "r", "n">>
C_info  == <<"i", "n", "f", "o">>
C_debug == <<"d", "e", "b", "u", "g">>
C_trace == <<"t", "r", "a", "c", "e">>
C_Values == <<"V", "a", "l", "u", "e", "s">>
C_Refs   == <<"R", "e", "f", "s">>

Levels == <<C_error, C_warn, C_info, C_debug, C_trace>>

\* An entry of opts.aliases.  kind "string": a template source as the user
\* wrote it (src its text, tpl what template(src) parses it to); kind
\* "template": the synthesizer normalizeOpts compiled from it; kind
\* "nrserLog": the synthesizer makeNrserLog({level, values}) returns.
AliasEntry(kind) == [kind |-> kind, level |-> <<>>, values |-> FALSE,
                     src |-> <<>>, tpl |-> Node("Empty")]

makeNrserLog(level, values) ==
  [AliasEntry("nrserLog") EXCEPT !.level = level, !.values = values]

templateString(src, tpl) == [AliasEntry("string") EXCEPT !.src = src, !.tpl = tpl]

DefaultAliases ==
  LET names == UNION {{Levels[i], Levels[i] \o C_Values, Levels[i] \o C_Refs} :
                      i \in 1..Len(Levels)}
      levelOf(k) == CHOOSE l \in {Levels[i] : i \in 1..Len(Levels)} :
                      k \in {l, l \o C_Values, l \o C_Refs}
  IN [k \in names |-> makeNrserLog(levelOf(k), k # levelOf(k) \o C_Refs)]

normalizeOpts(o) ==
  IF o.normalized THEN o
  ELSE IF ~o.hasAliases
    THEN [o EXCEPT !.hasAliases = TRUE, !.aliases = DefaultAliases, !.normalized = TRUE]
  ELSE [o EXCEPT !.aliases =
                   [k \in DOMAIN o.aliases |->
                      IF o.aliases[k].kind = "string" /\ o.aliases[k].src # <<>>
                        THEN [o.aliases[k] EXCEPT !.kind = "template"]
                        ELSE o.aliases[k]],
                 !.normalized = TRUE]

\* opts.aliases[name] is truthy
hasAlias(o, name) ==
  /\ name \in DOMAIN o.aliases
  /\ (o.aliases[name].kind = "string" => o.aliases[name].src # <<>>)

-----------------------------------------------------------------------------
(* collectMetadata *)

\* process.cwd()
cwd == <<"/", "w">>

\* fspath.resolve(cwd, filename), for paths without "." and ".." segments
resolve(dir, file) ==
  IF file # <<>> /\ Head(file) = "/" THEN file ELSE dir \o <<"/">> \o file

NoParent == [def |-> FALSE, pos |-> <<>>]

\* a variant that adds the name at the end
push(parts, name) == Append(parts, name)

\* parts.unshift(name)
unshift(parts, name) == <<name>> \o parts

ancestryStep(t, acc, itemPos) ==
  LET item == NodeAt(t, itemPos)
      marked == IF acc.parent.def THEN acc.parent ELSE [def |-> TRUE, pos |-> itemPos]
  IN IF isClassMethod(item)
       THEN [acc EXCEPT !.parent = marked,
                        !.parts = unshift(acc.parts,
                                          IF ~item.bool THEN item.name
                                          ELSE "[computed method]")]
     ELSE IF isClassDeclaration(item)
       THEN [acc EXCEPT !.parent = marked,
                        !.parts = unshift(acc.parts,
                                          IF item.name # "" THEN item.name
                                          ELSE "[anonymous class@" \o NumberToString(item.line) \o "]")]
     ELSE IF isFunction(item)
       THEN [acc EXCEPT !.parent = marked,
                        !.parts = unshift(acc.parts,
                                          IF item.name # "" THEN item.name
                                          ELSE "[anonymous@" \o NumberToString(item.line) \o "]")]
     ELSE IF isProgram(item)
       THEN [acc EXCEPT !.parent = marked]
     ELSE IF ~acc.parent.def /\ ~isClassBody(item) /\ ~isBlockStatement(item)
       THEN [acc EXCEPT !.indent = acc.indent + 1]
     ELSE acc

RECURSIVE reduceAncestry(_, _, _)
reduceAncestry(t, items, acc) ==
  IF items = <<>> THEN acc
  ELSE reduceAncestry(t, Tail(items), ancestryStep(t, acc, Head(items)))

\* a variant of the loop that does not look for handled statements
RECURSIVE scanStartMessageLabels(_, _, _, _, _)
scanStartMessageLabels(t, listPos, i, pos, o) ==
  LET children == NodeAt(t, listPos).kids
      child == children[i]
  IN IF i > Len(children) THEN [has |-> FALSE, is |-> FALSE]
     ELSE IF ~isLabeledStatement(child) THEN [has |-> FALSE, is |-> FALSE]
     ELSE IF hasAlias(o, child.text)
       THEN [has |-> TRUE, is |-> (Append(listPos, i) = pos)]
     ELSE scanStartMessageLabels(t, listPos, i + 1, pos, o)

\* the loop over parent.get('body').get('body'), from child i on
RECURSIVE scanStartMessage(_, _, _, _, _)
scanStartMessage(t, listPos, i, pos, o) ==
  LET children == NodeAt(t, listPos).kids
      child == children[i]
  IN IF i > Len(children) THEN [has |-> FALSE, is |-> FALSE]
     ELSE IF child.handled THEN [has |-> TRUE, is |-> FALSE]
     ELSE IF ~isLabeledStatement(child) THEN [has |-> FALSE, is |-> FALSE]
     ELSE IF hasAlias(o, child.text)
       THEN [has |-> TRUE, is |-> (Append(listPos, i) = pos)]
     ELSE scanStartMessage(t, listPos, i + 1, pos, o)

collectMetadata(t, pos, o) ==
  LET ancestry == getAncestry(pos)
      acc == reduceAncestry(t, SubSeq(ancestry, 2, Len(ancestry)),
                            [parts |-> <<>>, parent |-> NoParent, indent |-> 0])
      start == IF acc.parent.def /\ ~isProgram(NodeAt(t, acc.parent.pos))
                 THEN scanStartMessage(t, Append(acc.parent.pos, 1), 1, pos, o)
                 ELSE [has |-> FALSE, is |-> FALSE]
  IN [indent |-> acc.indent,
      parentPath |-> acc.parts,
      hasStartMessage |-> start.has,
      isStartMessage |-> start.is,
      filename |-> filename,
      filepath |-> resolve(cwd, filename),
      line |-> NodeAt(t, pos).line]

-----------------------------------------------------------------------------
(* The synthesizers *)

\* a variant that keeps a sequence expression as one element
contentArrayWhole(content) == arrayExpression(<<content>>)

\* the array under the content key
contentArray(content) ==
  arrayExpression(IF isSequenceExpression(content) THEN content.kids
                  ELSE <<content>>)

nrserLog(logFunction, content, metadata, values, level) ==
  callExpression(logFunction, <<objectExpression(<<
    objectProperty("values", booleanLiteral(values)),
    objectProperty("level", stringLiteral(level)),
    objectProperty("filename", stringLiteral(metadata.filename)),
    objectProperty("filepath", stringLiteral(metadata.filepath)),
    objectProperty("content", contentArray(content)),
    objectProperty("line", numericLiteral(metadata.line)),
    objectProperty("parentPath",
      arrayExpression([i \in 1..Len(metadata.parentPath) |->
                         nameLiteral(metadata.parentPath[i])]))
  >>)>>)

\* What a compiled template is called with: a string has no named slots,
\* an object has one slot for each of its keys.
StringIds(s)    == [t |-> "string", s |-> s, slots |-> <<>>]
ObjectIds(slots) == [t |-> "object", s |-> "", slots |-> slots]
NoIds           == [t |-> "none", s |-> "", slots |-> <<>>]

hasSlot(ids, name) == ids.t = "object" /\ name \in DOMAIN ids.slots

\* template(src)(ids): the parsed source with each placeholder ids names replaced
RECURSIVE useTemplate(_, _)
useTemplate(n, ids) ==
  IF n.type = "Identifier" /\ hasSlot(ids, n.name) THEN ids.slots[n.name]
  ELSE [n EXCEPT !.kids = [i \in 1..Len(n.kids) |-> useTemplate(n.kids[i], ids)]]

expression(tpl, ids) ==
  LET node == useTemplate(tpl, ids)
  IN IF node.type = "ExpressionStatement" THEN node.kids[1] ELSE node

\* the ids the synthesizer of a template alias, (message) => expr(message),
\* hands to the template when called as alias(logFunction, content, metadata)
templateIds(logFunction, content, metadata) == StringIds(logFunction)

\* opts.aliases[label](logFunction, content, metadata)
callAlias(entry, logFunction, content, metadata) ==
  IF entry.kind = "nrserLog"
    THEN nrserLog(logFunction, content, metadata, entry.values, entry.level)
    ELSE expression(entry.tpl, templateIds(logFunction, content, metadata))

-----------------------------------------------------------------------------
(* path.traverse inside a qualifying label: the purity check and the rewrite *)

SideEffectTypes == {"VariableDeclaration", "AssignmentExpression", "UpdateExpression",
                    "YieldExpression", "ReturnStatement"} \cup FunctionTypes

\* a variant that leaves the replacement unmarked
unmarked(n) == n

\* replacement[$handled] = true
markHandled(n) == [n EXCEPT !.handled = TRUE]

\* The visit of node n and of what is below it.  ctx holds the label's alias
\* entry, the log function's name and the label's metadata.  The result is
\* the node as the traversal leaves it, whether the purity error was thrown,
\* and one record per expression statement that was rewritten.  A replaced
\* statement is requeued: it is visited again (and skipped as handled), and
\* the traversal then descends into the replacement.
RECURSIVE visitInner(_, _), visitInnerList(_, _)
visitInner(n, ctx) ==
  IF n.type \in SideEffectTypes
    THEN [node |-> n, err |-> TRUE, calls |-> <<>>]
  ELSE IF n.type = "ExpressionStatement" /\ ~n.handled
    THEN LET content == n.kids[1]
             replacement ==
               markHandled(
                 expressionStatement(callAlias(ctx.alias, ctx.logFunction, content, ctx.metadata)))
             sub == visitInnerList(replacement.kids, ctx)
         IN [node |-> [replacement EXCEPT !.kids = sub.nodes],
             err |-> sub.err,
             calls |-> <<[stmt |-> n.line, content |-> content,
                          kind |-> ctx.alias.kind,
                          result |-> replacement.kids[1],
                          ids |-> IF ctx.alias.kind = "nrserLog" THEN NoIds
                                  ELSE templateIds(ctx.logFunction, content, ctx.metadata)]>>
                       \o sub.calls]
  ELSE LET sub == visitInnerList(n.kids, ctx)
       IN [node |-> [n EXCEPT !.kids = sub.nodes], err |-> sub.err, calls |-> sub.calls]

visitInnerList(ns, ctx) ==
  IF ns = <<>> THEN [nodes |-> <<>>, err |-> FALSE, calls |-> <<>>]
  ELSE LET h == visitInner(Head(ns), ctx)
       IN IF h.err
            THEN [nodes |-> <<h.node>> \o Tail(ns), err |-> TRUE, calls |-> h.calls]
            ELSE LET r == visitInnerList(Tail(ns), ctx)
                 IN [nodes |-> <<h.node>> \o r.nodes, err |-> r.err,
                     calls |-> h.calls \o r.calls]

-----------------------------------------------------------------------------
(* program.traverse: one context per container being visited.  A context    *)
(* holds the queue of the container's paths (child indices) still to visit; *)
(* a requeued path goes to a priority queue that is visited next, an        *)
(* inserted path goes to the end of the queue being visited.                *)

Context(pos, n) == [parent |-> pos, queues |-> <<[i \in 1..n |-> i]>>]

Top      == stack[Len(stack)]
CurQueue == Top.queues[Len(Top.queues)]
CurPos   == Append(Top.parent, Head(CurQueue))
CurNode  == NodeAt(tree, CurPos)

Visiting == status = "running" /\ stack # <<>> /\ CurQueue # <<>>

\* the top context once the path being visited has left its queue
Dequeued == [Top EXCEPT !.queues[Len(Top.queues)] = Tail(CurQueue)]

\* updateSiblingKeys: the paths after key k move by delta
Shifted(ctx, k, delta) ==
  [ctx EXCEPT !.queues =
     [q \in 1..Len(ctx.queues) |->
        [i \in 1..Len(ctx.queues[q]) |->
           IF ctx.queues[q][i] > k THEN ctx.queues[q][i] + delta
           ELSE ctx.queues[q][i]]]]

\* context.maybeQueue(path, true) for the n paths inserted at k
Inserted(ctx, k, n) ==
  [ctx EXCEPT !.queues[Len(ctx.queues)] = @ \o [i \in 1..n |-> k + i - 1]]

\* path.requeue(): context.maybeQueue(path), the priority queue
Requeued(ctx, k) == [ctx EXCEPT !.queues = Append(@, <<k>>)]

WithTop(ctx) == [stack EXCEPT ![Len(stack)] = ctx]

\* the statement list holding the path being visited
CurList == NodeAt(tree, Top.parent).kids

\* the tree with the node being visited replaced by nodes
Replaced(nodes) == WithKids(tree, Top.parent, Splice(CurList, Head(CurQueue), nodes))

\* the LabeledStatement visitor, up to its decisions
NewOpts   == normalizeOpts(opts)
Qualifies == Visiting /\ isLabeledStatement(CurNode) /\ hasAlias(NewOpts, CurNode.text)
Metadata  == collectMetadata(tree, CurPos, NewOpts)
Decision  == shouldStrip(CurNode.text, Metadata, NewOpts)
LogFunction == IF NewOpts.logFunction # "" THEN NewOpts.logFunction ELSE "METALOG"
Inner ==
  visitInnerList(CurNode.kids,
                 [alias |-> NewOpts.aliases[CurNode.text],
                  logFunction |-> LogFunction, metadata |-> Metadata])

\* a variant that checks the body for side effects before it decides to strip
OutcomePurityFirst ==
  IF Decision.threw THEN "TypeError"
  ELSE IF Inner.err THEN "PurityError"
  ELSE IF Decision.value THEN "strip"
  ELSE "rewrite"

\* the path the visitor takes for a qualifying label
Outcome ==
  IF Decision.threw THEN "TypeError"
  ELSE IF Decision.value THEN "strip"
  ELSE IF Inner.err THEN "PurityError"
  ELSE "rewrite"

\* a call of shouldStrip, with what it returned or threw
Called(name, metadata, o) ==
  [made |-> TRUE, name |-> name, metadata |-> metadata, strip |-> o.strip,
   result |-> shouldStrip(name, metadata, o)]

NotCalled ==
  [made |-> FALSE, name |-> <<>>, metadata |-> <<>>, strip |-> JSUndefined,
   result |-> Returned(FALSE)]

Entry(outcome, calls) ==
  [line |-> CurNode.line, label |-> CurNode.text, pos |-> CurPos,
   metadata |-> Metadata, outcome |-> outcome, calls |-> calls]

Fixed == UNCHANGED <<source, nodeEnv, PRESERVE_CONTEXTS, PRESERVE_FILES,
                     PRESERVE_LEVELS, filename>>

\* shouldStrip throws: hasStripOverride reads metadata.context
ThrowTypeError ==
  /\ Qualifies
  /\ Outcome = "TypeError"
  /\ opts' = NewOpts
  /\ call' = Called(CurNode.text, Metadata, NewOpts)
  /\ log' = Append(log, Entry("TypeError", <<>>))
  /\ status' = "TypeError"
  /\ UNCHANGED <<tree, stack>>
  /\ Fixed

\* shouldStrip is true: path.remove()
StripLabeledStatement ==
  /\ Qualifies
  /\ Outcome = "strip"
  /\ opts' = NewOpts
  /\ call' = Called(CurNode.text, Metadata, NewOpts)
  /\ log' = Append(log, Entry("strip", <<>>))
  /\ tree' = Replaced(<<>>)
  /\ stack' = WithTop(Shifted(Dequeued, Head(CurQueue), -1))
  /\ UNCHANGED status
  /\ Fixed

\* the inner traversal meets a side effect: throw path.buildCodeFrameError(...)
ThrowPurityError ==
  /\ Qualifies
  /\ Outcome = "PurityError"
  /\ opts' = NewOpts
  /\ call' = Called(CurNode.text, Metadata, NewOpts)
  /\ log' = Append(log, Entry("PurityError", Inner.calls))
  /\ tree' = Replaced(<<[CurNode EXCEPT !.kids = Inner.nodes]>>)
  /\ status' = "PurityError"
  /\ UNCHANGED stack
  /\ Fixed

\* the body is a block: path.replaceWithMultiple(path.get('body').node.body)
UnwrapBlock ==
  /\ Qualifies
  /\ Outcome = "rewrite"
  /\ isBlockStatement(Inner.nodes[1])
  /\ opts' = NewOpts
  /\ call' = Called(CurNode.text, Metadata, NewOpts)
  /\ log' = Append(log, Entry("rewrite", Inner.calls))
  /\ LET body == Inner.nodes[1].kids
         k == Head(CurQueue)
     IN /\ tree' = Replaced(body)
        /\ stack' = WithTop(Inserted(Shifted(Dequeued, k, Len(body) - 1), k, Len(body)))
  /\ UNCHANGED status
  /\ Fixed

\* the body is one statement: path.replaceWith(path.get('body').node)
UnwrapSingle ==
  /\ Qualifies
  /\ Outcome = "rewrite"
  /\ ~isBlockStatement(Inner.nodes[1])
  /\ opts' = NewOpts
  /\ call' = Called(CurNode.text, Metadata, NewOpts)
  /\ log' = Append(log, Entry("rewrite", Inner.calls))
  /\ tree' = Replaced(<<Inner.nodes[1]>>)
  /\ stack' = WithTop(Requeued(Dequeued, Head(CurQueue)))
  /\ UNCHANGED status
  /\ Fixed

\* a labeled statement whose label is no alias: the visitor returns, and
\* the traversal descends into the statement
SkipLabeledStatement ==
  /\ Visiting
  /\ isLabeledStatement(CurNode)
  /\ ~hasAlias(NewOpts, CurNode.text)
  /\ opts' = NewOpts
  /\ stack' = Append(WithTop(Dequeued), Context(CurPos, Len(CurNode.kids)))
  /\ UNCHANGED <<tree, status, log, call>>
  /\ Fixed

\* any other node: no visitor, the traversal descends into it
EnterNode ==
  /\ Visiting
  /\ ~isLabeledStatement(CurNode)
  /\ stack' = IF CurNode.kids = <<>> THEN WithTop(Dequeued)
              ELSE Append(WithTop(Dequeued), Context(CurPos, Len(CurNode.kids)))
  /\ UNCHANGED <<tree, opts, status, log, call>>
  /\ Fixed

\* a queue is exhausted: back to the queue, or the context, it was entered from
LeaveQueue ==
  /\ status = "running" /\ stack # <<>> /\ CurQueue = <<>>
  /\ stack' = IF Len(Top.queues) > 1
                THEN WithTop([Top EXCEPT !.queues = SubSeq(@, 1, Len(@) - 1)])
                ELSE SubSeq(stack, 1, Len(stack) - 1)
  /\ UNCHANGED <<tree, opts, status, log, call>>
  /\ Fixed

\* program.traverse returns
Finish ==
  /\ status = "running" /\ stack = <<>>
  /\ status' = "done"
  /\ UNCHANGED <<tree, stack, opts, log, call>>
  /\ Fixed

-----------------------------------------------------------------------------
(* The inputs: programs, options, environments *)

MaxBlock == 2     \* the longest block a label's body is given

\* loc.start.line: every node on a line of its own, in source order
RECURSIVE Numbered(_, _), NumberedList(_, _)
Numbered(n, l) ==
  LET r == NumberedList(n.kids, l + 1)
  IN [node |-> [n EXCEPT !.line = l, !.kids = r.nodes], next |-> r.next]

NumberedList(ns, l) ==
  IF ns = <<>> THEN [nodes |-> <<>>, next |-> l]
  ELSE LET h == Numbered(Head(ns), l)
           r == NumberedList(Tail(ns), h.next)
       IN [nodes |-> <<h.node>> \o r.nodes, next |-> r.next]

C_foo == <<"f", "o", "o">>

Id(x) == identifier(x)
Stmt(e) == expressionStatement(e)

Exprs == {Id("a"),
          sequenceExpression(<<Id("a"), Id("b")>>),
          assignmentExpression(Id("x"), Id("a"))}

\* statements without labels
Plain == {Stmt(e) : e \in Exprs}
           \cup {variableDeclaration("v", Id("a")),
                 ifStatement(Id("c"), blockStatement(<<Stmt(Id("a"))>>))}

BlockItems == {Stmt(Id("a")), Stmt(updateExpression(Id("x")))}

Blocks == {blockStatement(b) : b \in UNION {[1..n -> BlockItems] : n \in 0..MaxBlock}}

\* labels over plain bodies
Flat == {labeledStatement(l, b) : l \in {C_debug, C_trace, C_foo}, b \in Plain \cup Blocks}

\* qualifying labels in the body of a qualifying label
Nested ==
  {labeledStatement(C_debug, b) :
     b \in {labeledStatement(C_trace, Stmt(Id("a"))),
            labeledStatement(C_trace, blockStatement(<<Stmt(Id("a")), Stmt(Id("b"))>>)),
            labeledStatement(C_trace, Stmt(assignmentExpression(Id("x"), Id("a")))),
            labeledStatement(C_foo, Stmt(Id("a"))),
            blockStatement(<<labeledStatement(C_trace, Stmt(Id("a"))), Stmt(Id("b"))>>),
            blockStatement(<<labeledStatement(C_foo, Stmt(Id("a"))),
                             labeledStatement(C_debug, Stmt(Id("b")))>>),
            blockStatement(<<ifStatement(Id("c"),
                               blockStatement(<<labeledStatement(C_trace, Stmt(Id("a")))>>))>>)}}

First == Flat \cup Nested

Second == {labeledStatement(C_debug, Stmt(Id("b"))), Stmt(Id("b"))}

One == {labeledStatement(C_debug, Stmt(Id("a"))),
        labeledStatement(C_trace, blockStatement(<<Stmt(sequenceExpression(<<Id("a"), Id("b")>>)),
                                                   Stmt(Id("b"))>>))}

Programs ==
  \* at file level, and in a named function
  {program(<<s1, s2>>) : s1 \in First, s2 \in Second}
    \cup {program(<<functionDeclaration("doSomething", <<s1, s2>>)>>) : s1 \in First, s2 \in Second}
  \* in other scopes
    \cup {program(<<Stmt(Id("c")), s, Stmt(Id("d"))>>) : s \in One}
    \cup {program(<<classDeclaration("C", <<classMethod("m", FALSE, <<s>>)>>)>>) : s \in One}
    \cup {program(<<classDeclaration("", <<classMethod("k", TRUE, <<s>>)>>)>>) : s \in One}
    \cup {program(<<Stmt(classExpression("E", <<classMethod("m", FALSE, <<s>>)>>))>>) : s \in One}
    \cup {program(<<functionDeclaration("outer",
                      <<Stmt(Id("a")),
                        Stmt(callExpression("run", <<functionExpression("", <<s>>)>>))>>)>>) : s \in One}
    \cup {program(<<functionDeclaration("outer",
                      <<ifStatement(Id("c"), blockStatement(<<functionDeclaration("inner", <<s>>)>>))>>)>>) : s \in One}

\* template sources and what template() parses them to
C_logContent == <<"l", "o", "g", "(", "c", "o", "n", "t", "e", "n", "t", ")">>
T_logContent == expressionStatement(callExpression("log", <<Id("content")>>))

Options(strip, hasAliases, aliases, logFunction) ==
  [strip |-> strip, hasAliases |-> hasAliases, aliases |-> aliases,
   logFunction |-> logFunction, normalized |-> FALSE]

TemplateAliases ==
  (C_debug :> templateString(C_logContent, T_logContent))
    @@ (C_trace :> templateString(<<>>, Node("Empty")))

StripValues ==
  {JSUndefined, JSBool(FALSE), JSBool(TRUE), JSString(""), JSString("production"),
   JSNumber(1),
   JSObject([production |-> JSBool(TRUE)]),
   JSObject([production |-> JSBool(FALSE), development |-> JSNumber(1)]),
   JSObject([undefined |-> JSBool(TRUE)])}

NodeEnvs == {[def |-> TRUE, s |-> "production"], [def |-> TRUE, s |-> "development"],
             [def |-> FALSE, s |-> ""]}

C_file == <<"s", "r", "c", "/", "A", "p", "p", ".", "j", "s">>
C_lib  == <<"/", "l", "i", "b", "/", "b", ".", "j", "s">>

\* the settings of TRACE_CONTEXT, TRACE_FILE and TRACE_LEVEL
TraceNone    == [context |-> Unset, file |-> Unset, level |-> Unset]
TraceLevel   == [TraceNone EXCEPT !.level = EnvStr(<<"w", "a", "r", "n", " ", ",", " ", "D", "e", "b", "u", "g">>)]
TraceFile    == [TraceNone EXCEPT !.file = EnvStr(<<"l", "o", "g", "i", "n", ",", "A", "P", "P", ".", "j", "s">>)]
TraceContext == [TraceNone EXCEPT !.context = EnvStr(<<":", "d", "o", "S", "o", "m", "e", "t", "h", "i", "n", "g">>)]

BaseInit(p, f) ==
  /\ source = p
  /\ tree = p
  /\ stack = <<Context(<<>>, Len(p.kids))>>
  /\ filename = f
  /\ status = "running"
  /\ log = <<>>
  /\ call = NotCalled

EnvInit(env, trace) ==
  /\ nodeEnv = env
  /\ PRESERVE_CONTEXTS = normalizeEnv(trace.context)
  /\ PRESERVE_FILES = normalizeEnv(trace.file)
  /\ PRESERVE_LEVELS = normalizeEnv(trace.level)

Init ==
  /\ \E p \in Programs : BaseInit(Numbered(p, 1).node, C_file)
  /\ \E env \in {[def |-> TRUE, s |-> "production"]},
        trace \in {TraceNone, TraceLevel, TraceContext} :
       EnvInit(env, trace)
  /\ opts \in {Options(s, h, IF h THEN TemplateAliases ELSE <<>>, IF h THEN "myLog" ELSE "") :
                 s \in {JSBool(FALSE), JSBool(TRUE),
                        JSObject([production |-> JSBool(TRUE)])},
                 h \in BOOLEAN}

Next ==
  \/ ThrowTypeError
  \/ StripLabeledStatement
  \/ ThrowPurityError
  \/ UnwrapBlock
  \/ UnwrapSingle
  \/ SkipLabeledStatement
  \/ EnterNode
  \/ LeaveQueue
  \/ Finish

Spec == Init /\ [][Next]_vars

-----------------------------------------------------------------------------
(* shouldStrip on its own: one label in one file, under every setting of    *)
(* the strip option, NODE_ENV and the TRACE_* variables                     *)

C_Warn == <<"W", "a", "r", "n">>

TraceContexts == {Unset, EnvStr(<<":", "d", "o">>)}
TraceFiles == {Unset,
               EnvStr(<<"l", "o", "g", "i", "n", ",", "A", "P", "P", ".", "j", "s">>),
               EnvStr(<<" ", ",", " ">>),
               EnvStr(<<"l", "i", "b", "/">>)}
TraceLevels == {Unset,
                EnvStr(<<"w", "a", "r", "n", " ", ",", " ", "D", "e", "b", "u", "g">>),
                EnvStr(<<"t", "r", "a", "c", "e">>)}

InitStrip ==
  /\ \E name \in {C_debug, C_Warn, C_trace}, f \in {C_file, C_lib} :
       BaseInit(Numbered(program(<<labeledStatement(name, Stmt(Id("a")))>>), 1).node, f)
  /\ \E env \in NodeEnvs, c \in TraceContexts, f \in TraceFiles, l \in TraceLevels :
       EnvInit(env, [context |-> c, file |-> f, level |-> l])
  /\ opts = Options(JSUndefined, FALSE, <<>>, "")

\* shouldStrip(label.node.name, metadata, opts) for the file's label
CallShouldStrip ==
  /\ status = "running"
  /\ \E strip \in StripValues :
       LET o == [opts EXCEPT !.strip = strip]
       IN /\ opts' = o
          /\ call' = Called(NodeAt(tree, <<1>>).text, collectMetadata(tree, <<1>>, o), o)
  /\ UNCHANGED <<tree, stack, status, log>>
  /\ Fixed

NextStrip == CallShouldStrip

SpecStrip == InitStrip /\ [][NextStrip]_vars

-----------------------------------------------------------------------------
(* What the claims speak of *)

RECURSIVE Positions(_)
Positions(t) ==
  {<<>>} \cup UNION {{<<i>> \o p : p \in Positions(t.kids[i])} : i \in 1..Len(t.kids)}

RECURSIVE SubNodes(_)
SubNodes(t) == {t} \cup UNION {SubNodes(t.kids[i]) : i \in 1..Len(t.kids)}

RECURSIVE IsPosition(_, _)
IsPosition(t, pos) ==
  \/ pos = <<>>
  \/ (Head(pos) \in 1..Len(t.kids) /\ IsPosition(t.kids[Head(pos)], Tail(pos)))

\* where the node of that line stands in the program as parsed
SourcePos(line) == CHOOSE p \in Positions(source) : NodeAt(source, p).line = line
SourceNode(line) == NodeAt(source, SourcePos(line))

LastEntry == log[Len(log)]

\* entry e of a list is, whatever the letters' case, a part of string f
IsPartIgnoringCase(e, f) ==
  \E off \in 0..(Len(f) - Len(e)) :
    \A j \in 1..Len(e) : toLowerCaseChar(f[off + j]) = toLowerCaseChar(e[j])

EqualIgnoringCase(e, f) ==
  Len(e) = Len(f) /\ \A j \in 1..Len(e) : toLowerCaseChar(f[j]) = toLowerCaseChar(e[j])

PolicyMatches(strip) ==
  \/ (strip.t = "boolean" /\ strip.b)
  \/ (strip.t = "string" /\ strip.s # "" /\ nodeEnv.def /\ strip.s = nodeEnv.s)
  \/ (strip.t = "object" /\ EnvKey(nodeEnv) \in DOMAIN strip.m
        /\ strip.m[EnvKey(nodeEnv)].t = "boolean" /\ strip.m[EnvKey(nodeEnv)].b)

\* C1: with TRACE_CONTEXT empty, shouldStrip returns true exactly when the
\* strip option is truthy and is true, or names NODE_ENV, or maps NODE_ENV to
\* exactly true, and no TRACE_FILE entry is part of the file name and no
\* TRACE_LEVEL entry equals the label's name (both ignoring case); with a
\* falsy strip option it returns false whatever the three lists hold.
C1_ShouldStrip ==
  call.made =>
    /\ PRESERVE_CONTEXTS = <<>> =>
         /\ ~call.result.threw
         /\ call.result.value <=>
              /\ Truthy(call.strip)
              /\ PolicyMatches(call.strip)
              /\ ~\E i \in 1..Len(PRESERVE_FILES) :
                    IsPartIgnoringCase(PRESERVE_FILES[i], call.metadata.filename)
              /\ ~\E i \in 1..Len(PRESERVE_LEVELS) :
                    EqualIgnoringCase(PRESERVE_LEVELS[i], call.name)
    /\ ~Truthy(call.strip) => call.result = Returned(FALSE)

\* a mapping that names NODE_ENV strips a label the two set lists do not exempt
C1_Witness ==
  /\ call.made /\ PRESERVE_CONTEXTS = <<>>
  /\ call.strip.t = "object"
  /\ PRESERVE_FILES # <<>> /\ PRESERVE_LEVELS # <<>>
  /\ call.result = Returned(TRUE)

\* C2: when the strip policy matches and TRACE_CONTEXT has an entry, the
\* strip decision completes with a boolean for the metadata collectMetadata
\* produced.
C2_ContextDecisionCompletes ==
  (call.made /\ Truthy(call.strip) /\ PolicyMatches(call.strip)
     /\ PRESERVE_CONTEXTS # <<>>)
    => ~call.result.threw

HasSideEffect(n) == \E d \in SubNodes(n) : d.type \in SideEffectTypes

\* C3: a qualifying label that is not stripped ends the pass in the purity
\* error exactly when its body holds, at any depth, a variable declaration,
\* function, assignment, update, yield or return.
C3_PurityEnforced ==
  \A i \in 1..Len(log) :
    log[i].outcome \in {"rewrite", "PurityError"} =>
      (HasSideEffect(SourceNode(log[i].line).kids[1]) <=> log[i].outcome = "PurityError")

\* what the expression of a rewritten statement carries as content
ContentOf(callNode) ==
  LET props == callNode.kids[1].kids
      prop == CHOOSE q \in {props[i] : i \in 1..Len(props)} : q.name = "content"
  IN prop.kids[1].kids

\* statement new is what the rewrite leaves of statement old
RECURSIVE RewrittenFrom(_, _)
RewrittenFrom(new, old) ==
  IF old.type = "ExpressionStatement"
    THEN /\ new.type = "ExpressionStatement"
         /\ new.handled
         /\ old.handled => new = old
         /\ (~old.handled /\ new.kids[1].kids # <<>>
               /\ new.kids[1].kids[1].type = "ObjectExpression")
              => \A i \in 1..Len(ContentOf(new.kids[1])) :
                   ContentOf(new.kids[1])[i] \in SubNodes(old)
    ELSE /\ new.type = old.type
         /\ new.line = old.line
         /\ Len(new.kids) = Len(old.kids)
         /\ \A i \in 1..Len(old.kids) : RewrittenFrom(new.kids[i], old.kids[i])

\* C4: the unwrap puts, where the label stood, exactly the statements of its
\* body (rewritten), in their order, without the label or the block, and
\* leaves the statements before and after it as they were.
C4_Unwrap ==
  [][(Len(log') = Len(log) + 1 /\ log'[Len(log')].outcome = "rewrite") =>
       LET pos == log'[Len(log')].pos
           k == Key(pos)
           before == NodeAt(tree, Parent(pos)).kids
           after == NodeAt(tree', Parent(pos)).kids
           body == before[k].kids[1]
           stmts == IF isBlockStatement(body) THEN body.kids ELSE <<body>>
           n == Len(stmts)
       IN /\ Len(after) = Len(before) - 1 + n
          /\ \A i \in 1..(k - 1) : after[i] = before[i]
          /\ \A i \in (k + 1)..Len(before) : after[i + n - 1] = before[i]
          /\ \A i \in 1..n : RewrittenFrom(after[k + i - 1], stmts[i])
          /\ tree' = WithKids(tree, Parent(pos), after)]_vars

\* a block of two statements was unwrapped between two other statements
C4_Witness ==
  /\ log # <<>> /\ LastEntry.outcome = "rewrite"
  /\ LET lbl == SourceNode(LastEntry.line)
         list == NodeAt(source, Parent(SourcePos(LastEntry.line))).kids
     IN /\ isBlockStatement(lbl.kids[1]) /\ Len(lbl.kids[1].kids) = 2
        /\ 1 < Key(LastEntry.pos) /\ Key(LastEntry.pos) < Len(list)
        /\ Len(NodeAt(tree, Parent(LastEntry.pos)).kids) = Len(list) + 1

\* C5: a default alias gives the call a content array of the sub-expressions
\* of a sequence expression, in order, and of the one expression otherwise.
C5_ContentArray ==
  \A i \in 1..Len(log) : \A j \in 1..Len(log[i].calls) :
    LET c == log[i].calls[j]
    IN c.kind = "nrserLog" =>
         /\ c.content.type = "SequenceExpression" => ContentOf(c.result) = c.content.kids
         /\ c.content.type # "SequenceExpression" => ContentOf(c.result) = <<c.content>>

C5_Witness ==
  \E i \in 1..Len(log) : \E j \in 1..Len(log[i].calls) :
    /\ log[i].calls[j].kind = "nrserLog"
    /\ log[i].calls[j].content.type = "SequenceExpression"
    /\ Len(ContentOf(log[i].calls[j].result)) = 2

IsNamedScope(n) == n.type \in {"ClassMethod", "ClassDeclaration"} \cup FunctionTypes

ScopeName(n) ==
  IF n.type = "ClassMethod" THEN (IF n.bool THEN "[computed method]" ELSE n.name)
  ELSE IF n.name # "" THEN n.name
  ELSE IF n.type = "ClassDeclaration"
    THEN "[anonymous class@" \o NumberToString(n.line) \o "]"
  ELSE "[anonymous@" \o NumberToString(n.line) \o "]"

\* the names of the scopes around pos, from the root inwards
RECURSIVE ScopesFromRoot(_, _)
ScopesFromRoot(pos, i) ==
  IF i >= Len(pos) THEN <<>>
  ELSE LET n == NodeAt(source, SubSeq(pos, 1, i))
       IN (IF IsNamedScope(n) THEN <<ScopeName(n)>> ELSE <<>>)
            \o ScopesFromRoot(pos, i + 1)

\* C6: parentPath names each enclosing class method, class declaration and
\* function, outermost first, and nothing else.
C6_ParentPath ==
  \A i \in 1..Len(log) :
    log[i].metadata.parentPath = ScopesFromRoot(SourcePos(log[i].line), 0)

\* a label in method m of class C
C6_Witness ==
  \E i \in 1..Len(log) : log[i].metadata.parentPath = <<"C", "m">>

\* the functions whose body begins with two qualifying labels
StartPairs ==
  {fp \in Positions(source) :
     /\ isFunction(NodeAt(source, fp))
     /\ LET body == NodeAt(source, fp).kids[1].kids
        IN /\ Len(body) >= 2
           /\ isLabeledStatement(body[1]) /\ hasAlias(normalizeOpts(opts), body[1].text)
           /\ isLabeledStatement(body[2]) /\ hasAlias(normalizeOpts(opts), body[2].text)}

FirstOf(fp)  == NodeAt(source, fp).kids[1].kids[1]
SecondOf(fp) == NodeAt(source, fp).kids[1].kids[2]

BeginsWithExpression(body) ==
  \/ body.type = "ExpressionStatement"
  \/ (isBlockStatement(body) /\ body.kids # <<>> /\ body.kids[1].type = "ExpressionStatement")

\* C7 as stated: the first of two adjacent labels at the top of a function
\* has hasStartMessage = false and isStartMessage = true, the second has
\* hasStartMessage = true and isStartMessage = false.
C7_Original ==
  \A fp \in StartPairs : \A i, j \in 1..Len(log) :
    (i < j /\ log[i].line = FirstOf(fp).line /\ log[j].line = SecondOf(fp).line) =>
      /\ ~log[i].metadata.hasStartMessage /\ log[i].metadata.isStartMessage
      /\ log[j].metadata.hasStartMessage /\ ~log[j].metadata.isStartMessage

\* C7 amended: the first has hasStartMessage = true and isStartMessage =
\* true; when the first is rewritten and its body is an expression statement
\* or a block beginning with one, the second has hasStartMessage = true and
\* isStartMessage = false.
C7_StartMessages ==
  \A fp \in StartPairs : \A i \in 1..Len(log) :
    /\ log[i].line = FirstOf(fp).line =>
         log[i].metadata.hasStartMessage /\ log[i].metadata.isStartMessage
    /\ \A j \in 1..Len(log) :
         (i < j /\ log[i].line = FirstOf(fp).line /\ log[j].line = SecondOf(fp).line
            /\ log[i].outcome = "rewrite" /\ BeginsWithExpression(FirstOf(fp).kids[1])) =>
           log[j].metadata.hasStartMessage /\ ~log[j].metadata.isStartMessage

C7_Witness ==
  \E fp \in StartPairs : \E i, j \in 1..Len(log) :
    /\ i < j /\ log[i].line = FirstOf(fp).line /\ log[j].line = SecondOf(fp).line
    /\ log[i].outcome = "rewrite" /\ BeginsWithExpression(FirstOf(fp).kids[1])
    /\ status = "done"

\* C8: the synthesizer of a template alias expands the template with the
\* log function's name, the content node and the metadata as named slots.
C8_TemplateSlots ==
  \A i \in 1..Len(log) : \A j \in 1..Len(log[i].calls) :
    LET c == log[i].calls[j]
    IN c.kind = "template" =>
         /\ c.ids.t = "object"
         /\ {"logFunction", "content", "metadata"} \subseteq DOMAIN c.ids.slots
         /\ c.ids.slots["content"] = c.content

\* every rewrite the pass has made, in order
RECURSIVE AllCalls(_)
AllCalls(entries) ==
  IF entries = <<>> THEN <<>> ELSE Head(entries).calls \o AllCalls(Tail(entries))

\* the expression statements of the source inside a label that was rewritten
LoggedStatements ==
  {n \in SubNodes(source) :
     /\ n.type = "ExpressionStatement"
     /\ \E i \in 1..Len(log) :
          /\ log[i].outcome = "rewrite"
          /\ n \in SubNodes(SourceNode(log[i].line))}

\* a synthesized call inside the content of another
WrapsCall(n) ==
  /\ n.type = "ExpressionStatement" /\ n.handled
  /\ \E i \in 1..Len(n.kids[1].kids) : \E d \in SubNodes(n.kids[1].kids[i]) :
       d.type = "CallExpression" /\ d.line = 0

RewrittenOnce ==
  LET calls == AllCalls(log)
  IN /\ \A i \in 1..Len(calls) : calls[i].stmt > 0
     /\ \A i, j \in 1..Len(calls) : calls[i].stmt = calls[j].stmt => i = j
     /\ \A n \in SubNodes(tree) : ~WrapsCall(n)

Complete ==
  status = "done" =>
    /\ \A n \in LoggedStatements :
         /\ \E i \in 1..Len(AllCalls(log)) : AllCalls(log)[i].stmt = n.line
         /\ \A m \in SubNodes(tree) :
              ~(m.type = "ExpressionStatement" /\ ~m.handled /\ m.line = n.line)
    /\ \A m \in SubNodes(tree) :
         ~(isLabeledStatement(m) /\ hasAlias(normalizeOpts(opts), m.text))

RECURSIVE NodeCount(_), NodeCountList(_)
NodeCount(n) == 1 + NodeCountList(n.kids)
NodeCountList(ns) == IF ns = <<>> THEN 0 ELSE NodeCount(Head(ns)) + NodeCountList(Tail(ns))

\* the nodes of the default call for one expression at file level
CallSize ==
  NodeCount(nrserLog("", Id(""), [filename |-> <<>>, filepath |-> <<>>, line |-> 0,
                             parentPath |-> <<>>], TRUE, <<>>))

Max(a, b) == IF a >= b THEN a ELSE b

\* the most nodes the rewrite can put for an expression statement that
\* stands depth levels below the root: the statement, and the larger of the
\* default call (one name of parentPath for each level at most) and the
\* templates
SynthCost(depth) ==
  LET sizes == {NodeCount(opts.aliases[k].tpl) : k \in DOMAIN opts.aliases}
                 \cup {CallSize + depth}
  IN 1 + CHOOSE m \in sizes : \A x \in sizes : x <= m

\* the visits the subtree of n, at that depth, can still take
RECURSIVE Cost(_, _), CostList(_, _)
Cost(n, depth) ==
  (IF n.type = "ExpressionStatement" /\ ~n.handled THEN SynthCost(depth) ELSE 1)
    + CostList(n.kids, depth + 1)

CostList(ns, depth) ==
  IF ns = <<>> THEN 0 ELSE Cost(Head(ns), depth) + CostList(Tail(ns), depth)

RECURSIVE QueueCost(_, _), QueuesCost(_, _), StackCost(_)
QueueCost(parent, q) ==
  IF q = <<>> THEN 0
  ELSE 2 * Cost(NodeAt(tree, Append(parent, Head(q))), Len(parent) + 1)
         + QueueCost(parent, Tail(q))

QueuesCost(parent, qs) ==
  IF qs = <<>> THEN 0 ELSE 1 + QueueCost(parent, Head(qs)) + QueuesCost(parent, Tail(qs))

StackCost(st) ==
  IF st = <<>> THEN 0 ELSE QueuesCost(Head(st).parent, Head(st).queues) + StackCost(Tail(st))

\* every queued path names a node of the tree: while the pass runs there is
\* a path to visit, a queue to leave, or the traversal to return from
QueuesValid ==
  \A f \in 1..Len(stack) : \A q \in 1..Len(stack[f].queues) :
    \A i \in 1..Len(stack[f].queues[q]) :
      IsPosition(tree, Append(stack[f].parent, stack[f].queues[q][i]))

\* a bound on the steps the pass has left
Remaining == StackCost(stack) + (IF status = "running" THEN 1 ELSE 0)

\* C9: whatever the nesting of qualifying labels, each expression statement
\* of a rewritten label is replaced by a synthesized call exactly once and
\* no call wraps another; the pass ends (every queued path is there to be
\* visited, and each step brings the bound on the steps left down); when it ends
\* without an error no qualifying labeled statement and no such statement
\* unrewritten is left.
C9_RewrittenOnce ==
  /\ [](RewrittenOnce /\ Complete /\ QueuesValid)
  /\ [][Remaining' < Remaining]_vars

\* the pass is done, and a label nested in a rewritten label was visited
C9_Witness ==
  /\ status = "done"
  /\ \E i, j \in 1..Len(log) :
       /\ i < j
       /\ log[i].outcome = "rewrite" /\ log[j].outcome = "rewrite"
       /\ SourceNode(log[j].line) \in SubNodes(SourceNode(log[i].line).kids[1])
       /\ log[i].calls # <<>> /\ log[j].calls = <<>>

\* C10: when shouldStrip is true the labeled statement is removed from its
\* list, nothing in it is rewritten, and no purity error is raised, whatever
\* its body holds.
C10_StripFirst ==
  [][(Qualifies /\ ~Decision.threw /\ Decision.value) =>
       /\ tree' = WithKids(tree, Parent(CurPos),
                           SubSeq(CurList, 1, Key(CurPos) - 1)
                             \o SubSeq(CurList, Key(CurPos) + 1, Len(CurList)))
       /\ status' = "running"
       /\ log' = Append(log, Entry("strip", <<>>))]_vars

\* a label whose body assigns was stripped, and the pass went on
C10_Witness ==
  /\ log # <<>> /\ LastEntry.outcome = "strip"
  /\ HasSideEffect(SourceNode(LastEntry.line).kids[1])
  /\ status = "done"

====
